---------------------------- MODULE Spec2Model ----------------------------
(***************************************************************************)
(* The tasks modal of crates/tasks_ui/src/modal.rs: one TasksModalDelegate *)
(* per modal session, driven by its picker, over the task inventory of the *)
(* workspace.  Strings are sequences of one-character strings.  Indices    *)
(* are zero-based as in the source; candidates[ix] of the source is        *)
(* At(candidates.vec, ix) here.  An Option<usize> is None or a natural     *)
(* number; None orders below every Some(n), as Rust orders Option.         *)
(* The picker, the inventory, the fuzzy matcher and schedule_resolved_task *)
(* are collaborators outside this file and follow their specification: the *)
(* picker calls update_matches on every query edit and on refresh, the     *)
(* tasks it gets back run to completion in any order while the session is  *)
(* open, and user input is handled between their steps.                    *)
(***************************************************************************)
EXTENDS Integers, Sequences, FiniteSets, TLC

(* ------------------------------ bounds -------------------------------- *)
\* modal sessions opened in one behaviour
MaxSessions == 3
\* update_matches calls issued in one behaviour (one per session opened, one
\* per query edit, one per delete click)
MaxUpdates == 4

(* --------------------------- program constants ------------------------ *)
\* max_results handed to fuzzy::match_strings
MaxResults == 1000

None == -1

(* ------------------------------ strings ------------------------------- *)
\* the texts the user types into the picker's editor
Queries == { <<>>, <<" ">>, <<"b">> }

\* str::trim().is_empty()
IsBlank(s) == \A i \in DOMAIN s : s[i] = " "

\* Vec index and Vec::get with a zero-based index
At(s, ix) == s[ix + 1]
InRange(s, ix) == ix >= 0 /\ ix < Len(s)

\* Vec::remove(ix)
RemoveAt(s, ix) == [i \in 1..(Len(s) - 1) |-> IF i <= ix THEN s[i] ELSE s[i + 1]]

(* ------------------------------- tasks -------------------------------- *)
\* a ResolvedTask: id, resolved_label, display_label(), resolved.command_label
ResolvedTask(id, label, display, command) ==
    [id |-> id, resolved_label |-> label, display_label |-> display,
     command_label |-> command]

\* the (TaskSourceKind, ResolvedTask) pairs the modal lists
Entry(kind, task) == [kind |-> kind, task |-> task]

NoEntry == Entry("None", ResolvedTask(<<>>, <<>>, <<>>, <<>>))

\* the worktree's tasks.json templates resolved in the open file's context, in
\* the order the inventory returns them (fewer variables later, then by label)
CurrentTasks ==
    << Entry("Worktree", ResolvedTask(<<"Worktree", "t1">>, <<"a", "b">>, <<"a", "b">>, <<"a">>)),
       Entry("Worktree", ResolvedTask(<<"Worktree", "t2">>, <<"b">>, <<"b">>, <<"b">>)) >>

(* ----------------------- fuzzy matcher (collaborator) ----------------- *)
\* the characters of a string, as the char_bag collects them
Chars(s) == { s[i] : i \in DOMAIN s }

RECURSIVE IsSubsequence(_, _)
\* the characters of q occur in s in order
IsSubsequence(q, s) ==
    IF q = <<>> THEN TRUE
    ELSE IF s = <<>> THEN FALSE
    ELSE IF Head(q) = Head(s) THEN IsSubsequence(Tail(q), Tail(s))
    ELSE IsSubsequence(q, Tail(s))

\* the matcher's score of a non-empty query against a matching string: the
\* share of the string the query covers
Score(q, s) == IF q = <<>> THEN 0 ELSE (100 * Len(q)) \div Len(s)

\* a StringMatch
StringMatch(cand, q) ==
    [candidate_id |-> cand.id, string |-> cand.string, score |-> Score(q, cand.string)]

\* a comes before b in the matcher's output: higher score, then lower id
Before(a, b) ==
    \/ a.score > b.score
    \/ a.score = b.score /\ a.candidate_id < b.candidate_id

RECURSIVE Insert(_, _)
Insert(m, sorted) ==
    IF sorted = <<>> THEN <<m>>
    ELSE IF Before(m, Head(sorted)) THEN <<m>> \o sorted
    ELSE <<Head(sorted)>> \o Insert(m, Tail(sorted))

RECURSIVE SortMatches(_)
SortMatches(ms) ==
    IF ms = <<>> THEN <<>> ELSE Insert(Head(ms), SortMatches(Tail(ms)))

Truncate(s, n) == IF Len(s) <= n THEN s ELSE SubSeq(s, 1, n)

\* fuzzy::match_strings(candidates, query, smart_case, max_results, ..)
match_strings(cands, q, max_results) ==
    IF q = <<>>
    THEN Truncate([i \in DOMAIN cands |-> StringMatch(cands[i], q)], max_results)
    ELSE LET hit(c) == Chars(q) \subseteq c.char_bag /\ IsSubsequence(q, c.string)
             hits == SelectSeq(cands, hit)
         IN  Truncate(SortMatches([i \in DOMAIN hits |-> StringMatch(hits[i], q)]),
                      max_results)

(* ------------------------------ context ------------------------------ *)
\* the active item of the workspace, which active_item_selection_properties
\* reads for the inventory: no item, a plain file of the worktree whose
\* tasks.json holds CurrentTasks, or a TypeScript or a Rust file of a
\* worktree without tasks.json
VARIABLE location

Locations == { "none", "plain", "ts", "rs" }

\* the task templates a language registers, in the order it registers them:
\* label, and the number of distinct variables the label and command use
Template(label, variables) == [label |-> label, variables |-> variables]
LanguageTemplates(language) ==
    IF language = "ts"
    THEN << Template(<<"t">>, 0), Template(<<"t", "$">>, 1), Template(<<"a", "$">>, 1) >>
    ELSE IF language = "rs" THEN << Template(<<"r">>, 0) >>
    ELSE <<>>

\* the TaskSourceKind of a language's templates
LanguageKind(language) == IF language = "ts" THEN "Language ts" ELSE "Language rs"

\* the order of the characters of labels
Alphabet == << " ", "$", "1", "a", "b", "r", "t" >>
Rank(ch) == CHOOSE i \in DOMAIN Alphabet : Alphabet[i] = ch

RECURSIVE LabelLess(_, _)
\* label a is alphabetically before label b
LabelLess(a, b) ==
    IF b = <<>> THEN FALSE
    ELSE IF a = <<>> THEN TRUE
    ELSE IF Head(a) # Head(b) THEN Rank(Head(a)) < Rank(Head(b))
    ELSE LabelLess(Tail(a), Tail(b))

\* no template is put before another: the order of registration is kept
TemplateBefore_unsorted(a, b) == FALSE

\* template a is listed before template b: more variables, then the label
TemplateBefore(a, b) ==
    \/ a.variables > b.variables
    \/ a.variables = b.variables /\ LabelLess(a.label, b.label)

RECURSIVE InsertTemplate(_, _)
InsertTemplate(t, sorted) ==
    IF sorted = <<>> THEN <<t>>
    ELSE IF TemplateBefore(Head(sorted), t) \/ ~TemplateBefore(t, Head(sorted))
    THEN <<Head(sorted)>> \o InsertTemplate(t, Tail(sorted))
    ELSE <<t>> \o sorted

RECURSIVE SortTemplates(_)
SortTemplates(ts) ==
    IF ts = <<>> THEN <<>>
    ELSE InsertTemplate(ts[Len(ts)], SortTemplates(SubSeq(ts, 1, Len(ts) - 1)))

\* TaskTemplate::resolve_task in the context of a file: the variable of the
\* label is the file, and the id holds the template and the context
ResolveAt(template, loc) ==
    LET label == [i \in DOMAIN template.label |->
                     IF template.label[i] = "$" THEN "1" ELSE template.label[i]]
    IN  Entry(LanguageKind(loc),
              ResolvedTask(<<"Language", loc>> \o template.label, label, label, label))

\* the templates the inventory resolves for the active item, in its order
ResolvedTemplates(loc) ==
    IF loc = "none" THEN <<>>
    ELSE IF loc = "plain" THEN CurrentTasks
    ELSE LET sorted == SortTemplates(LanguageTemplates(loc))
         IN  [i \in DOMAIN sorted |-> ResolveAt(sorted[i], loc)]

\* a history entry is listed for the active item: a one-shot everywhere, a
\* worktree task in its worktree, a language task in files of its language
ListedAt(entry, loc) ==
    \/ entry.kind = "UserInput"
    \/ entry.kind = "Worktree" /\ loc = "plain"
    \/ loc \in {"ts", "rs"} /\ entry.kind = LanguageKind(loc)

(* ------------------------ inventory (collaborator) -------------------- *)
HasId(seq, id) == \E i \in DOMAIN seq : seq[i].task.id = id

\* the history returned whatever the active item is
UsedTasks_unfiltered(hist) == hist

\* Inventory::used_and_current_resolved_tasks: the history that is listed
\* for the active item, most recent last, and the resolved templates that
\* are not in it
UsedTasks(hist) ==
    LET listed(e) == ListedAt(e, location) IN SelectSeq(hist, listed)

\* the resolved templates returned whether or not the history holds them
CurrentNotUsed_all(hist) == ResolvedTemplates(location)

CurrentNotUsed(hist) ==
    LET fresh(e) == ~HasId(hist, e.task.id)
    IN  SelectSeq(ResolvedTemplates(location), fresh)

\* Inventory::delete_previously_used(id)
inventory_delete_previously_used(hist, id) ==
    LET keep(e) == e.task.id # id IN SelectSeq(hist, keep)

\* task_scheduled as a plain append
task_scheduled_append(hist, entry) == hist \o <<entry>>

\* Inventory::task_scheduled(kind, task): upsert to the most recent position
task_scheduled(hist, entry) ==
    LET keep(e) == e.task.id # entry.task.id
    IN  SelectSeq(hist, keep) \o <<entry>>

\* workspace::tasks::schedule_resolved_task: the history after the run was
\* handed off
schedule_resolved_task(hist, entry, omit_history) ==
    IF omit_history THEN hist ELSE task_scheduled(hist, entry)

(* --------------------------- delegate helpers ------------------------- *)
\* string_match_candidates: one StringMatchCandidate per candidate, its id the
\* candidate's index, its char_bag from resolved_label, its string the
\* display label
string_match_candidates(cands) ==
    [i \in DOMAIN cands |->
        [id |-> i - 1,
         char_bag |-> Chars(cands[i].task.resolved_label),
         string |-> cands[i].task.display_label]]

\* TaskTemplate::resolve_task for the one-shot template of spawn_oneshot:
\* label and command are the prompt
resolve_oneshot(p) == ResolvedTask(<<"UserInput">> \o p, p, p, p)

\* spawn_oneshot testing prompt.is_empty() without the trim
spawn_oneshot_untrimmed(p) ==
    IF p = <<>> THEN NoEntry ELSE Entry("UserInput", resolve_oneshot(p))

\* TasksModalDelegate::spawn_oneshot; NoEntry stands for Option::None
spawn_oneshot(p) ==
    IF IsBlank(p) THEN NoEntry ELSE Entry("UserInput", resolve_oneshot(p))

\* the sort with the key negated: the history matches go last
sort_by_key_negated(ms, index) ==
    LET used(m) == ~(m.candidate_id > index)
        rest(m) == m.candidate_id > index
    IN  SelectSeq(ms, rest) \o SelectSeq(ms, used)

\* matches.sort_by_key(|m| m.candidate_id > index): a stable sort on a
\* two-valued key keeps the order within each key
sort_by_key(ms, index) ==
    LET used(m) == ~(m.candidate_id > index)
        rest(m) == m.candidate_id > index
    IN  SelectSeq(ms, used) \o SelectSeq(ms, rest)

RECURSIVE partition_point(_, _)
\* matches.partition_point(|m| m.candidate_id <= index) on a list the sort
\* above has partitioned: the length of the prefix that satisfies it
partition_point(ms, index) ==
    IF ms = <<>> \/ ~(Head(ms).candidate_id <= index) THEN 0
    ELSE 1 + partition_point(Tail(ms), index)

\* the matches the completion of update_matches stores
sorted_matches(ms, last_used) ==
    IF last_used # None THEN sort_by_key(ms, last_used) ELSE ms

\* the divider_index as the partition point itself
divider_for_count(ms, last_used) ==
    IF last_used = None THEN None
    ELSE LET index == partition_point(ms, last_used)
         IN  IF index # 0 THEN index ELSE None

\* the divider_index as the partition point less one, saturating at row 0
divider_for_saturating(ms, last_used) ==
    IF last_used = None THEN None
    ELSE LET index == partition_point(ms, last_used)
         IN  IF index # 0 THEN index - 1 ELSE 0

\* the divider_index the completion of update_matches stores
divider_for(ms, last_used) ==
    IF last_used = None THEN None
    ELSE LET index == partition_point(ms, last_used)
         IN  IF index # 0 THEN index - 1 ELSE None

\* the selection reset for an empty list only, without the min
clamp_selected_unclamped(sel, ms) == IF ms = <<>> THEN 0 ELSE sel

\* the selected_index the completion of update_matches stores
clamp_selected(sel, ms) ==
    IF ms = <<>> THEN 0
    ELSE IF sel < Len(ms) - 1 THEN sel ELSE Len(ms) - 1

\* the boundary lowered with saturating_sub in place of checked_sub
lowered_index_saturating(last_used) ==
    LET n == IF last_used = None THEN 0 ELSE last_used
    IN  IF n >= 1 THEN n - 1 ELSE 0

\* last_used_candidate_index.unwrap_or(0).checked_sub(1)
lowered_index(last_used) ==
    LET n == IF last_used = None THEN 0 ELSE last_used
    IN  IF n >= 1 THEN n - 1 ELSE None

\* Some(ix) <= self.divider_index
AtOrAboveDivider(ix, divider) == divider # None /\ ix <= divider

\* separators_after_indices: the rows the picker draws a separator after
separators_after_indices(divider) == IF divider = None THEN <<>> ELSE <<divider>>

(* ------------------------------- state -------------------------------- *)
VARIABLES
    history,                    \* the inventory's usage history, most recent last
    sessions,                   \* modal sessions opened so far
    dismissed,                  \* the delegate of this session emitted DismissEvent
    candidates,                 \* Option<Vec<(TaskSourceKind, ResolvedTask)>>
    last_used_candidate_index,  \* Option<usize>
    divider_index,              \* Option<usize>
    matches,                    \* Vec<StringMatch>
    selected_index,             \* usize
    prompt,                     \* String
    query,                      \* the text in the picker's editor
    inflight,                   \* the update_matches tasks that have not completed
    issued,                     \* update_matches calls so far
    applied_gen,                \* which of them stored the visible matches
    rendered,                   \* task_index of the delete buttons on screen
    dispatched,                 \* what this session handed to schedule_resolved_task
    panicked,                   \* an index out of bounds ended the program
    last_call,                  \* the delegate method called last
    prev_run,                   \* the run the previous session put into history
    deleted,                    \* a delete click removed something this session
    workspace_alive,            \* the WeakModel<Workspace> can still be upgraded
    has_inventory,              \* task_store.task_inventory() is Some
    ran_elsewhere               \* the inventory recorded a run from outside
                                \* the modal since this session opened

delegateVars ==
    <<candidates, last_used_candidate_index, divider_index, matches,
      selected_index, prompt>>
pickerVars == <<query, inflight, issued, applied_gen, rendered>>
outVars == <<dispatched, dismissed>>
envVars == <<workspace_alive, has_inventory, location, ran_elsewhere>>
vars ==
    <<history, sessions, dismissed, candidates, last_used_candidate_index,
      divider_index, matches, selected_index, prompt, query, inflight, issued,
      applied_gen, rendered, dispatched, panicked, last_call, prev_run, deleted,
      workspace_alive, has_inventory, location, ran_elsewhere>>

NoCandidates == [is_some |-> FALSE, vec |-> <<>>]
SomeCandidates(v) == [is_some |-> TRUE, vec |-> v]

\* None and Some(text) of an Option<String>
NoText == [is_some |-> FALSE, text |-> <<>>]
SomeText(text) == [is_some |-> TRUE, text |-> text]

Call(op, omit, ix) == [op |-> op, omit |-> omit, ix |-> ix, ret |-> NoText]
Returned(op, ret) == [op |-> op, omit |-> FALSE, ix |-> None, ret |-> ret]

\* a session is on screen and running
Active == sessions > 0 /\ ~dismissed /\ ~panicked

\* the window of the workspace is there to take user input
Interactive == Active /\ workspace_alive

\* a new update_matches task for query q
NewTask(q) == [gen |-> issued + 1, query |-> q, started |-> FALSE, result |-> <<>>]
CanIssue == issued < MaxUpdates

\* the program before the first modal is opened
Unopened ==
    /\ history = <<>>
    /\ sessions = 0
    /\ dismissed = FALSE
    /\ candidates = NoCandidates
    /\ last_used_candidate_index = None
    /\ divider_index = None
    /\ matches = <<>>
    /\ selected_index = 0
    /\ prompt = <<>>
    /\ query = <<>>
    /\ inflight = {}
    /\ issued = 0
    /\ applied_gen = 0
    /\ rendered = {}
    /\ dispatched = <<>>
    /\ panicked = FALSE
    /\ last_call = Call("other", FALSE, None)
    /\ prev_run = NoEntry
    /\ deleted = FALSE
    /\ workspace_alive = TRUE
    /\ has_inventory \in BOOLEAN
    /\ ran_elsewhere = FALSE

\* a plain file of the worktree is open
Init == Unopened /\ location = "plain"

(* ------------------------------ actions ------------------------------- *)
\* the modal opened over the delegate of the session before: the matches,
\* the divider and the selection are those the last session left
OpenSession_matches_kept ==
    /\ ~panicked
    /\ workspace_alive
    /\ sessions = 0 \/ dismissed
    /\ sessions < MaxSessions
    /\ CanIssue
    /\ sessions' = sessions + 1
    /\ dismissed' = FALSE
    /\ candidates' = NoCandidates
    /\ last_used_candidate_index' = None
    /\ prompt' = <<>>
    /\ query' = <<>>
    /\ inflight' = {NewTask(<<>>)}
    /\ issued' = issued + 1
    /\ applied_gen' = 0
    /\ rendered' = {}
    /\ dispatched' = <<>>
    /\ deleted' = FALSE
    /\ last_call' = Call("other", FALSE, None)
    /\ ran_elsewhere' = FALSE
    /\ UNCHANGED <<history, panicked, prev_run, workspace_alive, has_inventory,
                   location, matches, divider_index, selected_index>>

\* the Spawn action opens the modal: TasksModal::new builds the picker over
\* TasksModalDelegate::new, and the picker asks for the matches of ""
OpenSession ==
    /\ ~panicked
    /\ workspace_alive
    /\ sessions = 0 \/ dismissed
    /\ sessions < MaxSessions
    /\ CanIssue
    /\ sessions' = sessions + 1
    /\ dismissed' = FALSE
    /\ candidates' = NoCandidates
    /\ matches' = <<>>
    /\ last_used_candidate_index' = None
    /\ divider_index' = None
    /\ selected_index' = 0
    /\ prompt' = <<>>
    /\ query' = <<>>
    /\ inflight' = {NewTask(<<>>)}
    /\ issued' = issued + 1
    /\ applied_gen' = 0
    /\ rendered' = {}
    /\ dispatched' = <<>>
    /\ deleted' = FALSE
    /\ last_call' = Call("other", FALSE, None)
    /\ ran_elsewhere' = FALSE
    /\ UNCHANGED <<history, panicked, prev_run, workspace_alive, has_inventory,
                   location>>

\* the user edits the query: the picker calls update_matches(query), which
\* only spawns the task
SetQuery(q) ==
    /\ Interactive
    /\ CanIssue
    /\ q # query
    /\ query' = q
    /\ inflight' = inflight \cup {NewTask(q)}
    /\ issued' = issued + 1
    /\ last_call' = Call("other", FALSE, None)
    /\ UNCHANGED <<history, sessions, delegateVars, applied_gen, rendered,
                   outVars, panicked, prev_run, deleted, envVars>>

\* the candidate build with the two lists in the other order
build_candidates_current_first(used, current) == current \o used

\* the candidates built from the history alone
build_candidates_used_only(used, current) == used

\* new_candidates = used; new_candidates.extend(current)
build_candidates(used, current) == used \o current

\* the boundary set to the length of the history instead of its last index
last_used_for_len(used) == IF used = <<>> THEN None ELSE Len(used)

\* last_used_candidate_index as the candidate build sets it
last_used_for(used) == IF used = <<>> THEN None ELSE Len(used) - 1

\* the first picker.update of update_matches with the fallible reads unwrapped
take_candidates_unwrap(cands, last_used, available, hist) ==
    IF cands.is_some
    THEN [candidates |-> cands, last_used |-> last_used, panic |-> FALSE,
          snapshot |-> string_match_candidates(cands.vec)]
    ELSE IF ~available
    THEN [candidates |-> cands, last_used |-> last_used, panic |-> TRUE,
          snapshot |-> <<>>]
    ELSE LET used == UsedTasks(hist)
             new_candidates == build_candidates(used, CurrentNotUsed(hist))
         IN  [candidates |-> SomeCandidates(new_candidates),
              last_used |-> last_used_for(used), panic |-> FALSE,
              snapshot |-> string_match_candidates(new_candidates)]

\* the first picker.update of update_matches reading the inventory every time
take_candidates_rebuild(cands, last_used, available, hist) ==
    IF ~available
    THEN [candidates |-> cands, last_used |-> last_used, panic |-> FALSE,
          snapshot |-> <<>>]
    ELSE LET used == UsedTasks(hist)
             new_candidates == build_candidates(used, CurrentNotUsed(hist))
         IN  [candidates |-> SomeCandidates(new_candidates),
              last_used |-> last_used_for(used), panic |-> FALSE,
              snapshot |-> string_match_candidates(new_candidates)]

\* the first picker.update of update_matches: the candidates and the boundary
\* it leaves in the delegate and the Vec<StringMatchCandidate> it returns.
\* The candidates of the delegate are reused; when there are none they are
\* built from the inventory, and without a workspace or an inventory
\* (available = FALSE) the closure returns Vec::new() and stores nothing
take_candidates(cands, last_used, available, hist) ==
    IF cands.is_some
    THEN [candidates |-> cands, last_used |-> last_used, panic |-> FALSE,
          snapshot |-> string_match_candidates(cands.vec)]
    ELSE IF ~available
    THEN [candidates |-> cands, last_used |-> last_used, panic |-> FALSE,
          snapshot |-> <<>>]
    ELSE LET used == UsedTasks(hist)
             new_candidates == build_candidates(used, CurrentNotUsed(hist))
         IN  [candidates |-> SomeCandidates(new_candidates),
              last_used |-> last_used_for(used), panic |-> FALSE,
              snapshot |-> string_match_candidates(new_candidates)]

\* the first half of an update_matches task: it takes the candidates of the
\* delegate and the matcher runs over that snapshot
StartMatch(c) ==
    /\ Active
    /\ ~c.started
    /\ LET taken == take_candidates(candidates, last_used_candidate_index,
                                   workspace_alive /\ has_inventory, history)
           result == match_strings(taken.snapshot, c.query, MaxResults)
       IN  /\ candidates' = taken.candidates
           /\ last_used_candidate_index' = taken.last_used
           /\ panicked' = taken.panic
           /\ inflight' = (inflight \ {c}) \cup
                  {[c EXCEPT !.started = TRUE, !.result = result]}
    /\ last_call' = Call("other", FALSE, None)
    /\ UNCHANGED <<history, sessions, divider_index, matches, selected_index,
                   prompt, query, issued, applied_gen, rendered, outVars,
                   prev_run, deleted, envVars>>

\* the second half of an update_matches task: it stores the matches, the
\* prompt, the divider and the selection
FinishMatch(c) ==
    /\ Active
    /\ c.started
    /\ LET ms == sorted_matches(c.result, last_used_candidate_index)
       IN  /\ matches' = ms
           /\ divider_index' = divider_for(ms, last_used_candidate_index)
           /\ selected_index' = clamp_selected(selected_index, ms)
    /\ prompt' = c.query
    /\ applied_gen' = c.gen
    /\ inflight' = inflight \ {c}
    /\ last_call' = Call("other", FALSE, None)
    /\ UNCHANGED <<history, sessions, candidates, last_used_candidate_index,
                   query, issued, rendered, outVars, panicked, prev_run, deleted, envVars>>

\* an update_matches task of a picker that was released: picker.update fails
\* and the task returns
DropMatch(c) ==
    /\ dismissed
    /\ ~panicked
    /\ inflight' = inflight \ {c}
    /\ UNCHANGED <<history, sessions, delegateVars, query, issued, applied_gen,
                   rendered, outVars, panicked, last_call, prev_run, deleted, envVars>>

\* set_selected_index, called by the picker with the index of a listed match
SetSelectedIndex(ix) ==
    /\ Interactive
    /\ InRange(matches, ix)
    /\ ix # selected_index
    /\ selected_index' = ix
    /\ last_call' = Call("other", FALSE, None)
    /\ UNCHANGED <<history, sessions, candidates, last_used_candidate_index,
                   divider_index, matches, prompt, pickerVars, outVars,
                   panicked, prev_run, deleted, envVars>>

\* confirm falling back to the first candidate when no match is selected
confirm_pick_first(ms, sel, cands) ==
    IF ~cands.is_some THEN [tag |-> "none", entry |-> NoEntry]
    ELSE LET ix == IF InRange(ms, sel) THEN At(ms, sel).candidate_id ELSE 0
         IN  IF ~InRange(cands.vec, ix) THEN [tag |-> "panic", entry |-> NoEntry]
             ELSE [tag |-> "task", entry |-> At(cands.vec, ix)]

\* what confirm takes from the selected match: nothing, an index out of
\* bounds (candidates[ix] panics), or the candidate at the match's
\* candidate_id
confirm_pick(ms, sel, cands) ==
    IF ~InRange(ms, sel) THEN [tag |-> "none", entry |-> NoEntry]
    ELSE LET ix == At(ms, sel).candidate_id
         IN  IF ~cands.is_some THEN [tag |-> "none", entry |-> NoEntry]
             ELSE IF ~InRange(cands.vec, ix) THEN [tag |-> "panic", entry |-> NoEntry]
             ELSE [tag |-> "task", entry |-> At(cands.vec, ix)]

\* the hand-off with the flag left at its default
HandOff_flag_dropped(entry, omit_history_entry) ==
    [kind |-> entry.kind, task |-> entry.task, omit_history |-> FALSE]

\* the arguments of the schedule_resolved_task call
HandOff(entry, omit_history_entry) ==
    [kind |-> entry.kind, task |-> entry.task, omit_history |-> omit_history_entry]

\* the hand-off without the emit
EmitDismiss_skipped(was) == was

\* model.emit(DismissEvent, cx) after the hand-off
EmitDismiss(was) == TRUE

\* the hand-off that ends confirm and confirm_input
Schedule(entry, omit_history_entry) ==
    LET call == HandOff(entry, omit_history_entry)
    IN  /\ dispatched' = Append(dispatched, call)
        /\ history' = schedule_resolved_task(history, Entry(call.kind, call.task),
                                             call.omit_history \/ ~has_inventory)
        /\ prev_run' = IF call.omit_history \/ ~has_inventory THEN NoEntry
                       ELSE Entry(call.kind, call.task)
        /\ dismissed' = EmitDismiss(dismissed)

\* TasksModalDelegate::confirm
Confirm(omit_history_entry) ==
    /\ Interactive
    /\ last_call' = Call("confirm", omit_history_entry, selected_index)
    /\ LET pick == confirm_pick(matches, selected_index, candidates)
       IN  CASE pick.tag = "none" ->
                  UNCHANGED <<history, outVars, panicked, prev_run>>
             [] pick.tag = "panic" ->
                  /\ panicked' = TRUE
                  /\ UNCHANGED <<history, outVars, prev_run>>
             [] pick.tag = "task" ->
                  /\ Schedule(pick.entry, omit_history_entry)
                  /\ UNCHANGED panicked
    /\ UNCHANGED <<sessions, delegateVars, pickerVars, deleted, envVars>>

\* TasksModalDelegate::confirm_input
ConfirmInput(omit_history_entry) ==
    /\ Interactive
    /\ last_call' = Call("confirm_input", omit_history_entry, None)
    /\ LET oneshot == spawn_oneshot(prompt)
       IN  IF oneshot = NoEntry
           THEN UNCHANGED <<history, outVars, prev_run>>
           ELSE Schedule(oneshot, omit_history_entry)
    /\ UNCHANGED <<sessions, delegateVars, pickerVars, panicked, deleted,
                   envVars>>

\* TasksModalDelegate::dismissed
Dismissed ==
    /\ Interactive
    /\ dismissed' = TRUE
    /\ prev_run' = NoEntry
    /\ last_call' = Call("other", FALSE, None)
    /\ UNCHANGED <<history, sessions, delegateVars, pickerVars, dispatched,
                   panicked, deleted, envVars>>

\* render_match(ix) puts a delete button on the item: the task_index its
\* on_click listener captures, or None when there is no item or no button
delete_button(ix, ms, cands, divider) ==
    IF ~cands.is_some THEN None
    ELSE LET hit == At(ms, ix)
         IN  IF ~InRange(cands.vec, hit.candidate_id) THEN None
             ELSE IF At(cands.vec, hit.candidate_id).kind = "UserInput"
                     \/ AtOrAboveDivider(ix, divider)
                  THEN hit.candidate_id
                  ELSE None

\* the picker renders the listed matches
Render ==
    /\ Interactive
    /\ LET buttons == { delete_button(ix, matches, candidates, divider_index) :
                           ix \in 0..(Len(matches) - 1) } \ {None}
       IN  /\ buttons # rendered
           /\ rendered' = buttons
    /\ last_call' = Call("other", FALSE, None)
    /\ UNCHANGED <<history, sessions, delegateVars, query, inflight, issued,
                   applied_gen, outVars, panicked, prev_run, deleted, envVars>>

\* the candidates after TasksModalDelegate::delete_previously_used(ix)
delete_previously_used(cands, ix) ==
    IF ~cands.is_some THEN cands
    ELSE IF ~InRange(cands.vec, ix) THEN cands
    ELSE SomeCandidates(RemoveAt(cands.vec, ix))

\* a click on a rendered delete button: delete_previously_used(task_index),
\* the history boundary lowered, and picker.refresh, which calls
\* update_matches with the query of the editor
DeleteClick(task_index) ==
    /\ Interactive
    /\ CanIssue
    /\ task_index \in rendered
    /\ candidates' = delete_previously_used(candidates, task_index)
    /\ history' =
          IF candidates.is_some /\ InRange(candidates.vec, task_index)
          THEN inventory_delete_previously_used(
                   history, At(candidates.vec, task_index).task.id)
          ELSE history
    /\ deleted' = (deleted \/ candidates' # candidates)
    /\ last_used_candidate_index' = lowered_index(last_used_candidate_index)
    /\ inflight' = inflight \cup {NewTask(query)}
    /\ issued' = issued + 1
    /\ last_call' = Call("delete", FALSE, task_index)
    /\ UNCHANGED <<sessions, divider_index, matches, selected_index, prompt,
                   query, applied_gen, rendered, outVars, panicked, prev_run,
                   envVars>>

\* confirm_completion reading the first match instead of the selected one
confirm_completion_first(ms, sel, cands) ==
    IF ~InRange(ms, sel) THEN NoText
    ELSE IF ~cands.is_some THEN NoText
    ELSE IF ~InRange(cands.vec, At(ms, 0).candidate_id) THEN NoText
    ELSE SomeText(At(cands.vec, At(ms, 0).candidate_id).task.command_label)

\* what TasksModalDelegate::confirm_completion returns; every task of the
\* model is resolved, so task.resolved is Some
confirm_completion(ms, sel, cands) ==
    IF ~InRange(ms, sel) THEN NoText
    ELSE IF ~cands.is_some THEN NoText
    ELSE IF ~InRange(cands.vec, At(ms, sel).candidate_id) THEN NoText
    ELSE SomeText(At(cands.vec, At(ms, sel).candidate_id).task.command_label)

\* picker::ConfirmCompletion: the picker asks the delegate for the completion
\* and, given one, puts it into the editor as the new query
ConfirmCompletion ==
    /\ Interactive
    /\ LET ret == confirm_completion(matches, selected_index, candidates)
       IN  /\ last_call' = Returned("confirm_completion", ret)
           /\ IF ret.is_some
              THEN /\ CanIssue
                   /\ query' = ret.text
                   /\ inflight' = inflight \cup {NewTask(ret.text)}
                   /\ issued' = issued + 1
              ELSE UNCHANGED <<query, inflight, issued>>
    /\ UNCHANGED <<history, sessions, delegateVars, applied_gen, rendered,
                   outVars, panicked, prev_run, deleted, envVars>>

\* the workspace is released before the candidates were built, while
\* update_matches tasks are in flight: the window takes no more input, the
\* tasks still run
WorkspaceDropped ==
    /\ Interactive
    /\ inflight # {}
    /\ ~candidates.is_some
    /\ workspace_alive' = FALSE
    /\ last_call' = Call("other", FALSE, None)
    /\ UNCHANGED <<history, sessions, delegateVars, pickerVars, outVars,
                   panicked, prev_run, deleted, has_inventory, location,
                   ran_elsewhere>>

\* a first run of a template started outside the modal while its candidate
\* list is built: the inventory records it in the history
TaskScheduledElsewhere(entry) ==
    /\ Interactive
    /\ candidates.is_some
    /\ ~HasId(history, entry.task.id)
    /\ history' = task_scheduled(history, entry)
    /\ ran_elsewhere' = TRUE
    /\ last_call' = Call("other", FALSE, None)
    /\ UNCHANGED <<sessions, delegateVars, pickerVars, outVars, panicked,
                   prev_run, deleted, workspace_alive, has_inventory, location>>

Next ==
    \/ OpenSession
    \/ \E q \in Queries : SetQuery(q)
    \/ \E c \in inflight : StartMatch(c)
    \/ \E c \in inflight : FinishMatch(c)
    \/ \E c \in inflight : DropMatch(c)
    \/ \E ix \in 0..(Len(matches) - 1) : SetSelectedIndex(ix)
    \/ \E omit \in BOOLEAN : Confirm(omit)
    \/ \E omit \in BOOLEAN : ConfirmInput(omit)
    \/ Dismissed
    \/ Render
    \/ \E task_index \in rendered : DeleteClick(task_index)
    \/ ConfirmCompletion
    \/ WorkspaceDropped
    \/ TaskScheduledElsewhere(CurrentTasks[1])

Spec == Init /\ [][Next]_vars

(* ------------------- sessions over changing active items -------------- *)
\* the user opens or activates another item, or closes the last one, while
\* no modal is open
OpenItem(loc) ==
    /\ ~panicked
    /\ workspace_alive
    /\ sessions = 0 \/ dismissed
    /\ loc # location
    /\ location' = loc
    /\ UNCHANGED <<history, sessions, delegateVars, pickerVars, outVars,
                   panicked, last_call, prev_run, deleted, workspace_alive,
                   has_inventory, ran_elsewhere>>

\* no item is open
ContextInit == Unopened /\ location = "none"

\* sessions under the empty query, each over the item that is active when it
\* opens
ContextNext ==
    \/ \E loc \in Locations : OpenItem(loc)
    \/ OpenSession
    \/ \E c \in inflight : StartMatch(c)
    \/ \E c \in inflight : FinishMatch(c)
    \/ \E ix \in 0..(Len(matches) - 1) : SetSelectedIndex(ix)
    \/ Confirm(FALSE)
    \/ Dismissed

ContextSpec == ContextInit /\ [][ContextNext]_vars

(* ------------------------------- claims ------------------------------- *)
LastOf(s) == s[Len(s)]

\* this step is a call of the delegate method op in a running session
Called(op) == Active /\ last_call'.op = op

\* C1: within one session a match computation that was superseded by a newer
\* update_matches call never overwrites the result of the newer one: the
\* computation whose result is visible is never replaced by an older one.
C1_NoStaleOverwrite ==
    [][sessions' = sessions => applied_gen' >= applied_gen]_vars

\* C2: confirm with a selected match hands off, once, the candidate whose
\* display label is the selected match's string, with that candidate's source
\* kind, and emits the dismiss event.
C2_ConfirmHandsOffSelected ==
    [][(Called("confirm") /\ InRange(matches, selected_index)) =>
          /\ Len(dispatched') = Len(dispatched) + 1
          /\ LastOf(dispatched').task.display_label =
                 At(matches, selected_index).string
          /\ \E i \in DOMAIN candidates.vec :
                 /\ candidates.vec[i].task = LastOf(dispatched').task
                 /\ candidates.vec[i].kind = LastOf(dispatched').kind
          /\ dismissed']_vars

\* C3: a session hands at most one task to the execution collaborator, and
\* once it has handed one off the session is ended.
C3_AtMostOneDispatch ==
    /\ Len(dispatched) <= 1
    /\ dispatched # <<>> => dismissed

\* C3 witness: a session that handed off its task and ended.
C3_Witness == Len(dispatched) = 1 /\ dismissed /\ sessions >= 2

\* the session state the no-op claims speak of
SessionUnchanged ==
    UNCHANGED <<candidates, matches, selected_index, prompt,
                last_used_candidate_index, divider_index>>

\* C4: confirm with no selected match (no match at the selected index, or no
\* candidate list) hands off nothing, emits no dismiss event and leaves the
\* session state and the history unchanged.
C4_ConfirmNoSelectionNoOp ==
    [][(Called("confirm")
          /\ (~InRange(matches, selected_index) \/ ~candidates.is_some)) =>
          /\ UNCHANGED <<dispatched, dismissed, history, panicked>>
          /\ SessionUnchanged]_vars

\* C4 witness: confirm was called over an empty match list of a built
\* candidate list, and the session is still open.
C4_Witness ==
    /\ Active
    /\ last_call.op = "confirm"
    /\ matches = <<>>
    /\ candidates.is_some
    /\ candidates.vec # <<>>

\* C5: confirm_with_custom_input hands off a UserInput one-shot task whose
\* label and command are the query text of the session at the call.
C5_OneshotIsQuery ==
    [][(Called("confirm_input") /\ ~IsBlank(query)) =>
          /\ Len(dispatched') = Len(dispatched) + 1
          /\ LastOf(dispatched').kind = "UserInput"
          /\ LastOf(dispatched').task.resolved_label = query
          /\ LastOf(dispatched').task.command_label = query]_vars

\* C6: confirm_with_custom_input over an empty or whitespace-only command
\* text hands off nothing, emits no dismiss event, and leaves the session
\* state and the history unchanged.
C6_BlankInputNoOp ==
    [][(Called("confirm_input") /\ IsBlank(prompt)) =>
          /\ UNCHANGED <<dispatched, dismissed, history, panicked>>
          /\ SessionUnchanged]_vars

\* C6 witness: confirm_input was called over a whitespace-only prompt and the
\* session is still open.
C6_Witness ==
    /\ Active
    /\ last_call.op = "confirm_input"
    /\ prompt = <<" ">>

\* C7: the omit_history flag of confirm and confirm_input reaches the
\* execution collaborator unchanged, and a run with the flag set leaves the
\* history as it was.
C7_OmitHistoryHonoured ==
    [][((Called("confirm") \/ Called("confirm_input"))
          /\ dispatched' # dispatched) =>
          /\ LastOf(dispatched').omit_history = last_call'.omit
          /\ last_call'.omit => history' = history
          /\ (~last_call'.omit /\ has_inventory) =>
                history' # <<>> /\ LastOf(history').task = LastOf(dispatched').task]_vars

\* C7 witness: a run was handed off with omit_history set while the history
\* held an entry, and the task is not in the history.
C7_Witness ==
    /\ dispatched # <<>>
    /\ LastOf(dispatched).omit_history
    /\ history # <<>>
    /\ ~HasId(history, LastOf(dispatched).task.id)

\* C8: after a run confirmed with omit_history=false, the candidate list of
\* the next session holds that task at the most recent position of the
\* history partition, and with an empty query it is listed before every
\* fresh entry.
C8_LastRunOnTop ==
    (~dismissed /\ prev_run # NoEntry /\ candidates.is_some /\ ~deleted) =>
        /\ last_used_candidate_index # None
        /\ InRange(candidates.vec, last_used_candidate_index)
        /\ At(candidates.vec, last_used_candidate_index) = prev_run
        /\ (prompt = <<>> /\ matches # <<>>) =>
              \E i \in DOMAIN matches :
                  /\ matches[i].candidate_id = last_used_candidate_index
                  /\ matches[i].string = prev_run.task.display_label
                  /\ \A j \in DOMAIN matches :
                        matches[j].candidate_id > last_used_candidate_index => i < j

\* C8 witness: a session after a recorded run lists two history entries and
\* a fresh one under the empty query.
C8_Witness ==
    /\ ~dismissed
    /\ prev_run # NoEntry
    /\ candidates.is_some
    /\ ~deleted
    /\ prompt = <<>>
    /\ matches # <<>>
    /\ last_used_candidate_index = 1
    /\ Len(candidates.vec) > 2

\* C9: a delete only ever removes a candidate that is sourced from UserInput
\* or lies in the history partition at the moment of the removal.
C9_DeleteOnlyHistory ==
    [][(Called("delete") /\ candidates' # candidates) =>
          \/ At(candidates.vec, last_call'.ix).kind = "UserInput"
          \/ /\ last_used_candidate_index # None
             /\ last_call'.ix <= last_used_candidate_index]_vars

\* C10: deleting the history entry at candidate index ix removes exactly
\* that entry from the candidate list, removes the entry of the same task id
\* from the inventory's history, and lowers the history boundary by one, to
\* none when it was the only history entry.
C10_DeleteRemovesExactlyOne ==
    [][(Called("delete")
          /\ candidates.is_some
          /\ InRange(candidates.vec, last_call'.ix)
          /\ last_used_candidate_index # None
          /\ last_call'.ix <= last_used_candidate_index) =>
          LET ix == last_call'.ix
              old == candidates.vec
              new == candidates'.vec
              id == At(old, ix).task.id
              others(e) == e.task.id # id
          IN  /\ candidates'.is_some
              /\ Len(new) = Len(old) - 1
              /\ \A i \in 0..(Len(new) - 1) :
                    At(new, i) = IF i < ix THEN At(old, i) ELSE At(old, i + 1)
              /\ history' = SelectSeq(history, others)
              /\ ~HasId(history', id)
              /\ last_used_candidate_index' =
                    IF last_used_candidate_index = 0 THEN None
                    ELSE last_used_candidate_index - 1]_vars

\* C10 witness: a delete click removed the only history entry and the
\* boundary is none, with fresh candidates left.
C10_Witness ==
    /\ last_call.op = "delete"
    /\ deleted
    /\ last_used_candidate_index = None
    /\ history = <<>>
    /\ candidates.vec = CurrentTasks

\* C11: a delete request for a candidate index that has no candidate any more,
\* or made when there is no candidate list, is a no-op: the candidate list,
\* the history boundary index and the history of the inventory are unchanged.
C11_StaleDeleteNoOp ==
    [][(Called("delete")
          /\ (~candidates.is_some \/ ~InRange(candidates.vec, last_call'.ix))) =>
          UNCHANGED <<candidates, last_used_candidate_index, history>>]_vars

\* this step is the completion of an update_matches task: it stored the
\* matches the matcher returned for the task
Applied == sessions' = sessions /\ applied_gen' # applied_gen
AppliedResult == (CHOOSE c \in inflight : c.gen = applied_gen').result

\* the place of a match in a list of matches
PosIn(ms, m) == CHOOSE i \in DOMAIN ms : ms[i] = m

\* a match of the history partition
InHistory(m, index) == index # None /\ m.candidate_id <= index

\* C12: after every applied match recomputation the stored matches are the
\* matcher's matches with every match whose candidate index is at or below
\* the last history index before every other match; within each of the two
\* parts the matches keep the matcher's order (descending score, ties by
\* ascending candidate id); without history the matcher's order is stored
\* as it is.
C12_HistoryFirstStable ==
    [][Applied =>
          LET ms == matches'
              fz == AppliedResult
              index == last_used_candidate_index'
          IN  /\ Len(ms) = Len(fz)
              /\ \A i \in DOMAIN fz : \E j \in DOMAIN ms : ms[j] = fz[i]
              /\ \A i, j \in DOMAIN ms :
                    i < j =>
                       /\ ~(~InHistory(ms[i], index) /\ InHistory(ms[j], index))
                       /\ (InHistory(ms[i], index) <=> InHistory(ms[j], index)) =>
                             /\ PosIn(fz, ms[i]) < PosIn(fz, ms[j])
                             /\ Before(ms[i], ms[j])
              /\ index = None => ms = fz]_vars

\* C12 witness: the visible matches list a history match before a fresh
\* match of a higher score.
C12_Witness ==
    /\ applied_gen > 0
    /\ \E i, j \in DOMAIN matches :
          /\ i < j
          /\ InHistory(matches[i], last_used_candidate_index)
          /\ ~InHistory(matches[j], last_used_candidate_index)
          /\ matches[j].score > matches[i].score

\* the number of matches of the history partition
HistoryCount(ms, index) ==
    Cardinality({ i \in DOMAIN ms : InHistory(ms[i], index) })

\* C13 as stated: after every applied match recomputation divider_index
\* equals the number of matches whose candidate index is at or below the
\* last history index (no divider when there is none).
C13_DividerIsHistoryCount ==
    [][Applied =>
          LET n == HistoryCount(matches', last_used_candidate_index')
          IN  divider_index' = IF n = 0 THEN None ELSE n]_vars

\* C13 amended: after every applied match recomputation divider_index is the
\* row of the last history match, the number of history matches less one,
\* and none when no history match is left; the separator is drawn after
\* that row.
C13_DividerIsLastHistoryRow ==
    [][Applied =>
          LET n == HistoryCount(matches', last_used_candidate_index')
          IN  /\ divider_index' = IF n = 0 THEN None ELSE n - 1
              /\ separators_after_indices(divider_index') =
                    IF n = 0 THEN <<>> ELSE <<n - 1>>]_vars

\* C13 witness: the visible matches hold two history matches and a fresh
\* one, and the divider is row 1.
C13_Witness ==
    /\ applied_gen > 0
    /\ HistoryCount(matches, last_used_candidate_index) = 2
    /\ Len(matches) = 3
    /\ divider_index = 1

\* C14: after every applied match recomputation the selected index is 0
\* when the match list is empty, and otherwise lies within the list: it is
\* the previous selection when that is still a row, else the last row.
C14_SelectionClamped ==
    [][Applied =>
          IF matches' = <<>>
          THEN selected_index' = 0
          ELSE /\ selected_index' \in 0..(Len(matches') - 1)
               /\ selected_index' =
                     IF selected_index <= Len(matches') - 1 THEN selected_index
                     ELSE Len(matches') - 1]_vars

\* C14 witness: a later recomputation left fewer matches than candidates
\* and the selection is on the last row.
C14_Witness ==
    /\ Active
    /\ applied_gen > 1
    /\ matches # <<>>
    /\ Len(matches) < Len(candidates.vec)
    /\ selected_index = Len(matches) - 1

StartedNow == { c \in inflight' : c.started /\ c \notin inflight }

\* C16: once a session has built its candidate list, the list changes only
\* through a delete, which removes the one entry at the clicked index; every
\* later match computation runs over the list of the session, whatever the
\* history of the inventory has become.
C16_CandidatesBuiltOnce ==
    [][(sessions' = sessions /\ candidates.is_some) =>
          /\ candidates' # candidates =>
                /\ last_call'.op = "delete"
                /\ candidates' =
                      SomeCandidates(RemoveAt(candidates.vec, last_call'.ix))
          /\ \A c \in StartedNow :
                /\ candidates' = candidates
                /\ \A i \in DOMAIN c.result :
                      /\ InRange(candidates.vec, c.result[i].candidate_id)
                      /\ c.result[i].string =
                            At(candidates.vec, c.result[i].candidate_id).task.display_label]_vars

\* C16 witness: the history holds a run made after the list was built, the
\* list still shows both templates as fresh, and a recomputation for a later
\* query has been applied.
C16_Witness ==
    /\ Active
    /\ ~deleted
    /\ history # <<>>
    /\ candidates = SomeCandidates(CurrentTasks)
    /\ last_used_candidate_index = None
    /\ prompt # <<>>
    /\ matches # <<>>

\* C17: the step that builds the candidate list puts the history entries
\* first, in the order the inventory returned them, then the fresh entries
\* in the order the inventory returned them, and sets the history boundary
\* to the number of history entries less one, none without history.
C17_BuildOrder ==
    [][(sessions' = sessions /\ ~candidates.is_some /\ candidates'.is_some) =>
          LET used == UsedTasks(history)
              current == CurrentNotUsed(history)
              vec == candidates'.vec
          IN  /\ Len(vec) = Len(used) + Len(current)
              /\ \A i \in DOMAIN used : vec[i] = used[i]
              /\ \A j \in DOMAIN current : vec[Len(used) + j] = current[j]
              /\ last_used_candidate_index' =
                    IF Len(used) = 0 THEN None ELSE Len(used) - 1]_vars

\* C17 witness: a list built from one history entry and one fresh template,
\* untouched since: the history entry, then the template, boundary 0.
C17_Witness ==
    /\ Active
    /\ ~deleted
    /\ Len(history) = 1
    /\ candidates.is_some
    /\ Len(candidates.vec) = 2
    /\ candidates.vec[1] = history[1]
    /\ candidates.vec[2] = CurrentNotUsed(history)[1]
    /\ last_used_candidate_index = 0

\* C18: no resolved id occurs twice in the candidate list of a session, and
\* a template whose resolved id is in the history when the list is built is
\* listed once, at its place in the history.
C18_NoDuplicateIds ==
    [][candidates'.is_some =>
          LET vec == candidates'.vec
          IN  /\ \A i, j \in DOMAIN vec :
                    vec[i].task.id = vec[j].task.id => i = j
              /\ (sessions' = sessions /\ ~candidates.is_some) =>
                    \A k \in DOMAIN CurrentTasks :
                       \A h \in DOMAIN history :
                          history[h].task.id = CurrentTasks[k].task.id =>
                             /\ vec[h] = history[h]
                             /\ \A i \in DOMAIN vec :
                                   vec[i].task.id = CurrentTasks[k].task.id => i = h]_vars

\* C18 witness: the first template is the only history entry, and the list
\* built from it holds that template first and the other template after it.
C18_Witness ==
    /\ Active
    /\ ~deleted
    /\ history = <<CurrentTasks[1]>>
    /\ candidates = SomeCandidates(<<CurrentTasks[1], CurrentTasks[2]>>)
    /\ last_used_candidate_index = 0

C20_UnavailableIsSilent ==
    [][/\ \A c \in StartedNow :
             (~candidates.is_some /\ ~(workspace_alive /\ has_inventory)) =>
                /\ c.result = <<>>
                /\ ~panicked'
       /\ (Applied /\ ~candidates'.is_some) =>
             /\ matches' = <<>>
             /\ divider_index' = None
             /\ separators_after_indices(divider_index') = <<>>
             /\ selected_index' = 0
             /\ ~panicked']_vars

\* C20 witness: the workspace was released before the list was built, and
\* the computation for a typed query was applied over no candidates.
C20_Witness ==
    /\ ~workspace_alive
    /\ has_inventory
    /\ ~panicked
    /\ applied_gen > 0
    /\ ~candidates.is_some
    /\ prompt # <<>>
    /\ matches = <<>>
    /\ divider_index = None
    /\ selected_index = 0

(* ---------------- sessions over changing active items ---------------- *)
\* the display labels of the candidates, and the labels the modal lists
CandidateLabels == [i \in DOMAIN candidates.vec |-> candidates.vec[i].task.display_label]
ListedLabels == [i \in DOMAIN matches |-> matches[i].string]
Contains(seq, x) == \E i \in DOMAIN seq : seq[i] = x

\* C21: a session opened while no item is active builds an empty candidate
\* list and lists nothing, and nothing fails; a session opened once a file is
\* active has every template of that file among its candidates, resolved
\* against the file (the variable of a label replaced by the file)
C21_NoItemListsNothing ==
    /\ ~panicked
    /\ (Active /\ candidates.is_some) =>
          /\ location = "none" => (candidates.vec = <<>> /\ matches = <<>>)
          /\ location = "plain" =>
                \A label \in { <<"a", "b">>, <<"b">> } : Contains(CandidateLabels, label)
          /\ location = "ts" =>
                \A label \in { <<"a", "1">>, <<"t", "1">>, <<"t">> } :
                    Contains(CandidateLabels, label)
          /\ location = "rs" => Contains(CandidateLabels, <<"r">>)

\* a second session, opened over a TypeScript file, lists its three tasks
C21_Witness ==
    /\ Active /\ sessions >= 2 /\ location = "ts" /\ history = <<>>
    /\ applied_gen # 0 /\ Len(matches) = 3

\* C22: under the empty query and with an empty history, the applied list is
\* the templates of the active item with those of more variables first and
\* then by label
C22_FreshOrder ==
    (Active /\ candidates.is_some /\ history = <<>> /\ applied_gen # 0 /\ prompt = <<>>) =>
        ListedLabels =
            CASE location = "ts" -> << <<"a", "1">>, <<"t", "1">>, <<"t">> >>
              [] location = "plain" -> << <<"a", "b">>, <<"b">> >>
              [] location = "rs" -> << <<"r">> >>
              [] OTHER -> <<>>

\* the first list of a session over a TypeScript file
C22_Witness ==
    /\ Active /\ candidates.is_some /\ history = <<>> /\ applied_gen # 0
    /\ location = "ts" /\ Len(matches) = 3 /\ divider_index = None

\* C23: the candidates of a session over a file of a language are of that
\* language alone, templates and history; the history entries of the
\* language, whatever was run in files of other languages since, are the
\* candidates up to the history boundary
C23_LanguageScoped ==
    (Active /\ candidates.is_some /\ location \in {"ts", "rs"}) =>
        /\ \A i \in DOMAIN candidates.vec :
              /\ candidates.vec[i].kind = LanguageKind(location)
              /\ HasId(history, candidates.vec[i].task.id)
                    <=> i - 1 <= last_used_candidate_index
        /\ \A h \in DOMAIN history :
              history[h].kind = LanguageKind(location)
                  => HasId(candidates.vec, history[h].task.id)

\* back in a TypeScript file after a Rust task was run in a Rust file: the
\* TypeScript task run before is the one history entry listed
C23_Witness ==
    /\ Active /\ candidates.is_some /\ location = "ts" /\ applied_gen # 0
    /\ \E h \in DOMAIN history : history[h].kind = "Language rs"
    /\ \E h \in DOMAIN history : history[h].kind = "Language ts"
    /\ last_used_candidate_index = 0
    /\ divider_index = 0
    /\ Len(matches) = 3
(* --------------------------- the match filter ------------------------- *)
\* C24: when the result of a computation for q is applied, every listed
\* match refers to a candidate of the list, the display label of that
\* candidate has q as a subsequence, and under the empty q every candidate
\* is listed
C24_ListedAreSubsequenceHits ==
    [][(Applied /\ candidates'.is_some) =>
          /\ \A i \in DOMAIN matches' :
                /\ InRange(candidates'.vec, matches'[i].candidate_id)
                /\ IsSubsequence(prompt',
                       At(candidates'.vec, matches'[i].candidate_id).task.display_label)
          /\ prompt' = <<>> =>
                \A j \in DOMAIN candidates'.vec :
                    \E i \in DOMAIN matches' : matches'[i].candidate_id = j - 1]_vars

(* --------------------------- session isolation ------------------------ *)
\* C25: every step that opens a session leaves the delegate idle: the query
\* and the prompt empty, the selection 0, no candidate list, no matches, no
\* history boundary, no divider and no separator, whatever the session
\* before left
C25_SessionStartsIdle ==
    [][sessions' = sessions + 1 =>
          /\ query' = <<>> /\ prompt' = <<>>
          /\ selected_index' = 0
          /\ candidates' = NoCandidates
          /\ matches' = <<>>
          /\ last_used_candidate_index' = None
          /\ divider_index' = None
          /\ separators_after_indices(divider_index') = <<>>
          /\ rendered' = {} /\ dispatched' = <<>>]_vars

\* a third session just opened, after sessions that ran a task and a one-shot
C25_Witness ==
    /\ sessions = 3 /\ Active /\ ~candidates.is_some /\ applied_gen = 0
    /\ matches = <<>> /\ Len(history) = 2
    /\ prev_run.kind = "UserInput"
(* ----------------------- deletion and recomputation ------------------- *)
\* C26: once an entry was deleted in a session, every result that is applied
\* is the one the matcher gives over the candidate list as the deletion left
\* it: no result computed over the list before the deletion is applied
C26_NoResultOverOldList ==
    [][(Applied /\ deleted /\ candidates.is_some) =>
          AppliedResult =
              match_strings(string_match_candidates(candidates.vec), prompt', MaxResults)]_vars
(* ------------------------- divider and history ------------------------ *)
\* C27: after every applied recomputation there is no divider, and no
\* separator, exactly when no match of the history partition is listed; a
\* recomputation that found nothing leaves an empty list, no divider and no
\* separator
C27_NoDividerIffNoHistoryMatch ==
    [][Applied =>
          LET none == ~\E i \in DOMAIN matches' :
                          InHistory(matches'[i], last_used_candidate_index')
          IN  /\ (divider_index' = None) <=> none
              /\ (separators_after_indices(divider_index') = <<>>) <=> none
              /\ AppliedResult = <<>> =>
                    /\ matches' = <<>>
                    /\ divider_index' = None
                    /\ separators_after_indices(divider_index') = <<>>]_vars

\* the one history entry was deleted and the recomputation the click issued
\* was applied: a task is listed and there is no divider
C27_Witness ==
    /\ Active /\ deleted /\ inflight = {} /\ applied_gen # 0
    /\ history = <<>> /\ matches # <<>>
    /\ divider_index = None
    /\ separators_after_indices(divider_index) = <<>>
(* ------------------------- indices into the list ---------------------- *)
\* C28: in every state every listed match carries a valid index of the
\* candidate list, and the candidate at that index has the display label the
\* match shows
C28_MatchesIndexCandidates ==
    \A i \in DOMAIN matches :
        /\ candidates.is_some
        /\ InRange(candidates.vec, matches[i].candidate_id)
        /\ At(candidates.vec, matches[i].candidate_id).task.display_label
              = matches[i].string

\* C29: whenever the candidate list exists and the inventory recorded no run
\* from outside the modal since it was built, the boundary is an index of
\* the list and the candidates at or below it are exactly those whose task
\* is in the history
C29_BoundaryIsHistory ==
    (candidates.is_some /\ ~ran_elsewhere /\ ~dismissed) =>
        /\ last_used_candidate_index < Len(candidates.vec)
        /\ \A i \in DOMAIN candidates.vec :
              (i - 1 <= last_used_candidate_index)
                  <=> HasId(history, candidates.vec[i].task.id)

\* C30: in every state the row of a match is at or above the divider (the
\* view shows it as history) exactly when its candidate index is at or below
\* the history boundary
C30_ViewAgreesWithBoundary ==
    \A p \in DOMAIN matches :
        AtOrAboveDivider(p - 1, divider_index)
            <=> InHistory(matches[p], last_used_candidate_index)
====
